---- MODULE Spec2Model ----
(***************************************************************************)
(* Phone-Detector: the detection loop of main.py (main) and the device     *)
(* lister of list_cameras.py (list_camera_indexes, get_camera_names).      *)
(*                                                                         *)
(* Spec        : one run of main(), from the camera open to the return.    *)
(* SpecLister  : one call of list_camera_indexes or of get_camera_names.   *)
(***************************************************************************)
EXTENDS Integers, Sequences, FiniteSets, TLC

(***************************************************************************)
(* Bounds of the model.                                                    *)
(***************************************************************************)
MaxFrames == 21        \* frames read successfully in one run of main
MaxPhoneFrames == 1    \* frames of one run on which the detector reports a phone class
MaxBoxes == 2          \* detections returned for one frame
MaxElapsed == 2        \* wall-clock advance seen between two time.time() calls

MaxTested == 4         \* largest max_tested passed to list_camera_indexes
MaxLines == 2          \* lines of the device-listing command's output
MaxPathLen == 3        \* tokens of one indented line of that output
MaxDevices == 2        \* devices the device-graph library or the profiler reports

(***************************************************************************)
(* Program constants.                                                      *)
(***************************************************************************)
FpsPeriod == 10        \* main.py: frame_count % 10, fps = 10 / ...

VARIABLES
    \* ---- main.py: main ----
    pc,              \* position of main: "open","read","infer","output","finally","done","raised"
    cam,             \* args.cam
    show,            \* args.show
    clock,           \* last value time.time() returned, counted from the call at main.py:42
    fps_time,        \* main.py:42
    fps,             \* main.py:78, the quotient num / den
    frame_count,     \* main.py:43
    detected_phone,  \* main.py:57
    status_text,     \* main.py:72
    console,         \* lines printed to standard output, in order
    calls,           \* number of calls made on each collaborator
    cleanup_log,     \* the calls of the finally block, in order
    exit_path,       \* how the loop was left: "none","openfail","readfail","quit","interrupt","error"
    phones,          \* history: for each frame read, whether a phone-like class was among its detections
    since_report,    \* history: frames read since fps_time was last assigned
    report_times     \* history: the values assigned to fps_time, in order

mainVars == <<pc, cam, show, clock, fps_time, fps, frame_count, detected_phone,
              status_text, console, calls, cleanup_log, exit_path, phones,
              since_report, report_times>>

VARIABLES
    \* ---- list_cameras.py ----
    fn,              \* the function called: "list_camera_indexes", "get_camera_names", "none"
    lpc,             \* position inside the called function
    max_tested,      \* list_cameras.py:5
    i,               \* list_cameras.py:8
    indexes,         \* list_cameras.py:7
    live,            \* indices whose capture handle is open and not yet released
    probes,          \* history: per probed index, the open and read outcomes and the release calls
    system,          \* list_cameras.py:19
    names,           \* list_cameras.py:20
    dev_name,        \* list_cameras.py:41
    nlines,          \* number of lines of the command's output
    lineno,          \* lines of the output already parsed
    cur,             \* history: the line parsed last and whether it added an entry
    out,             \* lines the function printed
    exc,             \* the exception raised by a collaborator, "none" if none
    names_at_fail,   \* history: names at the moment the exception was raised
    result           \* the value returned

listerVars == <<fn, lpc, max_tested, i, indexes, live, probes, system, names, dev_name,
                nlines, lineno, cur, out, exc, names_at_fail, result>>

vars == <<mainVars, listerVars>>

(***************************************************************************)
(* Class names of the model, as character sequences (str.lower and the     *)
(* substring test work on characters).                                     *)
(***************************************************************************)
CellPhone == <<"c","e","l","l"," ","p","h","o","n","e">>
Phone == <<"p","h","o","n","e">>
CapPhone == <<"P","h","o","n","e">>
Person == <<"p","e","r","s","o","n">>
Photo == <<"p","h","o","t","o">>

\* model.names: class index -> class name (a dict of the loaded model)
ModelNames == (0 :> Person) @@ (1 :> CellPhone) @@ (2 :> CapPhone) @@ (3 :> Photo)

\* class indices a box can carry; 4 is absent from model.names
ClassIdx == {0, 1, 2, 3, 4}

\* str(cls_idx) for the one index absent from model.names
StrOfIdx(cls_idx) == <<"4">>

\* model.names.get(cls_idx, str(cls_idx))
NameOf(cls_idx) == IF cls_idx \in DOMAIN ModelNames THEN ModelNames[cls_idx] ELSE StrOfIdx(cls_idx)

\* str.lower on one character
LowerChar(c) == IF c = "P" THEN "p" ELSE c

\* str.lower
Lower(s) == [p \in 1..Len(s) |-> LowerChar(s[p])]

\* sub in s
Contains(sub, s) ==
    \E p \in 0..(Len(s) - Len(sub)) : SubSeq(s, p + 1, p + Len(sub)) = sub

\* main.py:66
IsPhoneName(name) == Contains(Phone, Lower(name)) \/ Contains(CellPhone, Lower(name))

\* main.py:57-69, the loop over results.boxes from box k on, flag d so far
RECURSIVE DetectFrom(_, _, _)
DetectFrom(boxes, k, d) ==
    IF k > Len(boxes) THEN d
    ELSE DetectFrom(boxes, k + 1, IF IsPhoneName(NameOf(boxes[k])) THEN TRUE ELSE d)

\* a plausible slip: detected_phone initialised once before the loop, never reset per frame
DetectPhone_CarryOver(boxes, prev) == DetectFrom(boxes, 1, prev)

\* main.py:57-69: detected_phone after the loop over the frame's boxes
DetectPhone(boxes, prev) == DetectFrom(boxes, 1, FALSE)

\* main.py:72
StatusText(d) == IF d THEN "PHONE DETECTED" ELSE "no phone"

\* a plausible slip: a report period that is not 10
FpsDue_Twenty(n) == n % (2 * FpsPeriod) = 0

\* a plausible slip: recomputing on every fifth frame
FpsDue_Five(n) == n % 5 = 0

\* main.py:76
FpsDue(n) == n % FpsPeriod = 0

\* values of --cam
Cams == {0, 1}

\* time.time(): the wall clock does not run backwards within the bound
Nows(c) == c..(c + MaxElapsed)

\* results.boxes of one frame: the class indices of its detections
RECURSIVE SeqsUpTo(_, _)
SeqsUpTo(S, n) ==
    IF n = 0 THEN {<<>>}
    ELSE LET shorter == SeqsUpTo(S, n - 1)
         IN  shorter \cup {Append(s, x) : s \in {t \in shorter : Len(t) = n - 1}, x \in S}

BoxSeqs == SeqsUpTo(ClassIdx, MaxBoxes)

\* whether a frame's detections include a class whose lowercased name contains "phone"
HasPhoneClass(boxes) ==
    \E k \in 1..Len(boxes) :
        LET n == NameOf(boxes[k])
        IN  \E p \in 0..(Len(n) - 5) :
                [j \in 1..5 |-> IF n[p + j] = "P" THEN "p" ELSE n[p + j]] = <<"p","h","o","n","e">>

PhoneFrames == Cardinality({k \in 1..Len(phones) : phones[k]})

Line(kind, n, text) == [kind |-> kind, n |-> n, text |-> text]

Bump(c, name) == [c EXCEPT ![name] = @ + 1]

NoCalls == [n \in {"read", "infer", "putText", "imshow", "release", "destroyAllWindows"} |-> 0]

(***************************************************************************)
(* main.py: main                                                           *)
(***************************************************************************)
\* the lister is not running
ListerIdle ==
    /\ fn = "none"
    /\ lpc = "idle"
    /\ max_tested = 0
    /\ i = 0
    /\ indexes = <<>>
    /\ live = {}
    /\ probes = <<>>
    /\ system = "none"
    /\ names = <<>>
    /\ dev_name = <<>>
    /\ nlines = 0
    /\ lineno = 0
    /\ cur = [indented |-> FALSE, text |-> <<>>, added |-> FALSE]
    /\ out = <<>>
    /\ exc = "none"
    /\ names_at_fail = <<>>
    /\ result = <<>>

Init ==
    /\ pc = "open"
    /\ cam \in Cams
    /\ show \in BOOLEAN
    /\ clock = 0
    /\ fps_time = 0
    /\ fps = [num |-> 0, den |-> 1]
    /\ frame_count = 0
    /\ detected_phone = FALSE
    /\ status_text = ""
    /\ console = <<Line("loading", 0, "Loading model:")>>
    /\ calls = NoCalls
    /\ cleanup_log = <<>>
    /\ exit_path = "none"
    /\ phones = <<>>
    /\ since_report = 0
    /\ report_times = <<>>
    /\ ListerIdle

\* a plausible slip: the failed open falls through to the cleanup
OpenFails_Release ==
    /\ pc' = "finally"
    /\ exit_path' = "openfail"
    /\ console' = Append(console, Line("error", cam, "ERROR: Cannot open camera index"))
    /\ UNCHANGED <<clock, fps_time, frame_count, report_times>>

\* main.py:36-38
OpenFails ==
    /\ pc' = "done"
    /\ exit_path' = "openfail"
    /\ console' = Append(console, Line("error", cam, "ERROR: Cannot open camera index"))
    /\ UNCHANGED <<clock, fps_time, frame_count, report_times>>

\* main.py:35-43
OpenCamera ==
    /\ pc = "open"
    /\ \/ OpenFails
       \/ /\ console' = Append(console, Line("opened", 0, "Camera opened. Press 'q' to quit."))
          /\ fps_time' = clock
          /\ report_times' = <<clock>>
          /\ frame_count' = 0
          /\ pc' = "read"
          /\ UNCHANGED <<clock, exit_path>>
    /\ UNCHANGED <<cam, show, fps, detected_phone, status_text, calls, cleanup_log,
                   phones, since_report>>

\* a plausible slip: a failed read that does not leave the loop
ReadFails_Continue ==
    /\ console' = Append(console, Line("readfail", 0, "Failed to read frame from camera."))
    /\ pc' = "read"
    /\ exit_path' = "readfail"
    /\ UNCHANGED <<frame_count, since_report>>

\* main.py:48-50
ReadFails ==
    /\ console' = Append(console, Line("readfail", 0, "Failed to read frame from camera."))
    /\ pc' = "finally"
    /\ exit_path' = "readfail"
    /\ UNCHANGED <<frame_count, since_report>>

\* main.py:47-51
ReadFrame ==
    /\ pc = "read"
    /\ calls' = Bump(calls, "read")
    /\ \/ ReadFails
       \/ /\ frame_count < MaxFrames
          /\ frame_count' = frame_count + 1
          /\ since_report' = since_report + 1
          /\ pc' = "infer"
          /\ UNCHANGED <<console, exit_path>>
    /\ UNCHANGED <<cam, show, clock, fps_time, fps, detected_phone, status_text,
                   cleanup_log, phones, report_times>>

\* main.py:54-80
ProcessFrame ==
    /\ pc = "infer"
    /\ \E boxes \in BoxSeqs :
        /\ PhoneFrames + (IF HasPhoneClass(boxes) THEN 1 ELSE 0) <= MaxPhoneFrames
        /\ phones' = Append(phones, HasPhoneClass(boxes))
        /\ detected_phone' = DetectPhone(boxes, detected_phone)
        /\ status_text' = StatusText(detected_phone')
    /\ IF FpsDue(frame_count)
       THEN \E now \in Nows(clock) :
              /\ clock' = now
              /\ IF now = fps_time
                 THEN \* ZeroDivisionError at main.py:78
                      /\ pc' = "finally"
                      /\ exit_path' = "error"
                      /\ calls' = Bump(Bump(calls, "infer"), "putText")
                      /\ UNCHANGED <<fps, fps_time, since_report, report_times>>
                 ELSE /\ fps' = [num |-> FpsPeriod, den |-> now - fps_time]
                      /\ fps_time' = now
                      /\ since_report' = 0
                      /\ report_times' = Append(report_times, now)
                      /\ calls' = Bump(Bump(Bump(calls, "infer"), "putText"), "putText")
                      /\ pc' = "output"
                      /\ UNCHANGED exit_path
       ELSE /\ calls' = Bump(Bump(calls, "infer"), "putText")
            /\ pc' = "output"
            /\ UNCHANGED <<clock, fps, fps_time, since_report, report_times, exit_path>>
    /\ UNCHANGED <<cam, show, frame_count, console, cleanup_log>>

\* main.py:82-88
Output ==
    /\ pc = "output"
    /\ IF show
       THEN /\ calls' = Bump(calls, "imshow")
            /\ \/ pc' = "finally" /\ exit_path' = "quit"
               \/ pc' = "read" /\ UNCHANGED exit_path
            /\ UNCHANGED console
       ELSE /\ console' = Append(console, Line("status", frame_count, status_text))
            /\ pc' = "read"
            /\ UNCHANGED <<calls, exit_path>>
    /\ UNCHANGED <<cam, show, clock, fps_time, fps, frame_count, detected_phone,
                   status_text, cleanup_log, phones, since_report, report_times>>

\* a plausible slip: the handler returns without the cleanup
KeyboardInterrupt_NoCleanup ==
    /\ pc \in {"read", "infer", "output"}
    /\ console' = Append(console, Line("interrupted", 0, "Interrupted by user."))
    /\ pc' = "done"
    /\ exit_path' = "interrupt"
    /\ UNCHANGED <<cam, show, clock, fps_time, fps, frame_count, detected_phone,
                   status_text, calls, cleanup_log, phones, since_report, report_times>>

\* main.py:45-46, 90-91: the interrupt signal raised inside the try block
KeyboardInterrupt ==
    /\ pc \in {"read", "infer", "output"}
    /\ console' = Append(console, Line("interrupted", 0, "Interrupted by user."))
    /\ pc' = "finally"
    /\ exit_path' = "interrupt"
    /\ UNCHANGED <<cam, show, clock, fps_time, fps, frame_count, detected_phone,
                   status_text, calls, cleanup_log, phones, since_report, report_times>>

\* main.py:93-96
Finally ==
    /\ pc = "finally"
    /\ calls' = Bump(Bump(calls, "release"), "destroyAllWindows")
    /\ cleanup_log' = cleanup_log \o <<"release", "destroyAllWindows", "print">>
    /\ console' = Append(console, Line("exiting", 0, "Exiting."))
    /\ pc' = IF exit_path = "error" THEN "raised" ELSE "done"
    /\ UNCHANGED <<cam, show, clock, fps_time, fps, frame_count, detected_phone,
                   status_text, exit_path, phones, since_report, report_times>>

Next ==
    \/ OpenCamera /\ UNCHANGED listerVars
    \/ ReadFrame /\ UNCHANGED listerVars
    \/ ProcessFrame /\ UNCHANGED listerVars
    \/ Output /\ UNCHANGED listerVars
    \/ KeyboardInterrupt /\ UNCHANGED listerVars
    \/ Finally /\ UNCHANGED listerVars

Spec == Init /\ [][Next]_vars

(***************************************************************************)
(* list_cameras.py: list_camera_indexes                                    *)
(***************************************************************************)
\* the detection loop is not running
MainIdle ==
    /\ pc = "idle"
    /\ cam = 0
    /\ show = FALSE
    /\ clock = 0
    /\ fps_time = 0
    /\ fps = [num |-> 0, den |-> 1]
    /\ frame_count = 0
    /\ detected_phone = FALSE
    /\ status_text = ""
    /\ console = <<>>
    /\ calls = NoCalls
    /\ cleanup_log = <<>>
    /\ exit_path = "none"
    /\ phones = <<>>
    /\ since_report = 0
    /\ report_times = <<>>

gcnVars == <<system, names, dev_name, nlines, lineno, cur, out, exc, names_at_fail>>

lciVars == <<max_tested, i, indexes, live, probes>>

\* a plausible slip: the index is appended whenever the camera opened
AppendIfRead_IgnoreRet(idxs, k, ret) == Append(idxs, k)

\* list_cameras.py:12-13
AppendIfRead(idxs, k, ret) == IF ret THEN Append(idxs, k) ELSE idxs

\* a plausible slip: cap.release() nested under `if ret`
AfterRead_ReleaseIfRet(ret) == IF ret THEN "release" ELSE "probe"

\* list_cameras.py:14: the statement that follows the read, whatever ret is
AfterRead(ret) == "release"

\* list_cameras.py:9-10
LciOpen ==
    /\ fn = "list_camera_indexes"
    /\ lpc = "probe"
    /\ i < max_tested
    /\ \E isOpened \in BOOLEAN :
        /\ probes' = Append(probes, [index |-> i, opened |-> isOpened, read |-> FALSE,
                                     ret |-> FALSE, releases |-> 0])
        /\ IF isOpened
           THEN /\ live' = live \cup {i}
                /\ lpc' = "read"
                /\ i' = i
           ELSE /\ live' = live
                /\ lpc' = "probe"
                /\ i' = i + 1
    /\ UNCHANGED <<fn, max_tested, indexes, result>>
    /\ UNCHANGED gcnVars

\* list_cameras.py:11-13
LciRead ==
    /\ fn = "list_camera_indexes"
    /\ lpc = "read"
    /\ \E ret \in BOOLEAN :
        /\ probes' = [probes EXCEPT ![Len(probes)].read = TRUE, ![Len(probes)].ret = ret]
        /\ indexes' = AppendIfRead(indexes, i, ret)
        /\ lpc' = AfterRead(ret)
        /\ i' = IF AfterRead(ret) = "probe" THEN i + 1 ELSE i
    /\ UNCHANGED <<fn, max_tested, live, result>>
    /\ UNCHANGED gcnVars

\* list_cameras.py:14
LciRelease ==
    /\ fn = "list_camera_indexes"
    /\ lpc = "release"
    /\ probes' = [probes EXCEPT ![Len(probes)].releases = @ + 1]
    /\ live' = live \ {i}
    /\ i' = i + 1
    /\ lpc' = "probe"
    /\ UNCHANGED <<fn, max_tested, indexes, result>>
    /\ UNCHANGED gcnVars

\* list_cameras.py:8, 15
LciReturn ==
    /\ fn = "list_camera_indexes"
    /\ lpc = "probe"
    /\ i >= max_tested
    /\ result' = indexes
    /\ lpc' = "done"
    /\ UNCHANGED <<fn>>
    /\ UNCHANGED lciVars
    /\ UNCHANGED gcnVars

(***************************************************************************)
(* list_cameras.py: get_camera_names                                       *)
(*                                                                         *)
(* A line of text is a sequence of tokens.  "/dev/video" stands for those  *)
(* ten characters and is split at its "video" like any other occurrence;   *)
(* the other tokens are single characters, none of them white space.       *)
(***************************************************************************)
Tokens == {"/dev/video", "video", "0", "1", "-", "x"}

Digits == {"0", "1"}

ExpandToken(t) == IF t = "/dev/video" THEN <<"/dev/", "video">> ELSE <<t>>

\* the text with "/dev/video" spelled as "/dev/" followed by "video"
RECURSIVE Expand(_)
Expand(text) ==
    IF text = <<>> THEN <<>> ELSE ExpandToken(Head(text)) \o Expand(Tail(text))

\* list_cameras.py:48: "/dev/video" in dev_path
HasDevVideo(e) == \E k \in 1..(Len(e) - 1) : e[k] = "/dev/" /\ e[k + 1] = "video"

VideoAt(e) == {k \in 1..Len(e) : e[k] = "video"}

Least(S) == CHOOSE k \in S : \A m \in S : k <= m

\* list_cameras.py:50: dev_path.split("video")[1], the text between the first
\* "video" and the next one (or the end of the line)
SplitVideoSecond(e) ==
    LET first == Least(VideoAt(e))
        later == {k \in VideoAt(e) : k > first}
        stop == IF later = {} THEN Len(e) + 1 ELSE Least(later)
    IN  SubSeq(e, first + 1, stop - 1)

DigitValue(d) == IF d = "1" THEN 1 ELSE 0

RECURSIVE DecimalValue(_)
DecimalValue(ds) ==
    IF ds = <<>> THEN 0
    ELSE 10 * DecimalValue(SubSeq(ds, 1, Len(ds) - 1)) + DigitValue(ds[Len(ds)])

\* list_cameras.py:50: int(s): an optional sign and at least one digit, else ValueError
PyInt(s) ==
    LET neg == s # <<>> /\ s[1] = "-"
        ds == IF neg THEN Tail(s) ELSE s
        ok == ds # <<>> /\ \A k \in 1..Len(ds) : ds[k] \in Digits
    IN  IF ok THEN [ok |-> TRUE, val |-> IF neg THEN 0 - DecimalValue(ds) ELSE DecimalValue(ds),
                    exc |-> "none"]
        ELSE [ok |-> FALSE, val |-> 0, exc |-> "ValueError"]

\* Python's exception classes: each class and its base
ExcBase ==
    ("ModuleNotFoundError" :> "ImportError") @@ ("ImportError" :> "Exception") @@
    ("FileNotFoundError" :> "OSError") @@ ("OSError" :> "Exception") @@
    ("COMError" :> "Exception") @@ ("ValueError" :> "Exception") @@
    ("Exception" :> "BaseException")

RECURSIVE IsInstance(_, _)
IsInstance(e, cls) ==
    \/ e = cls
    \/ e \in DOMAIN ExcBase /\ IsInstance(ExcBase[e], cls)

\* list_cameras.py:31
CatchesImportError(e) == IsInstance(e, "ImportError")

\* list_cameras.py:52
CatchesValueError(e) == IsInstance(e, "ValueError")

\* a plausible slip: a handler for the missing command alone
CatchesException_OnlyOSError(e) == IsInstance(e, "OSError")

\* list_cameras.py:64
CatchesException(e) == IsInstance(e, "Exception")

EmptyMap == [k \in {} |-> <<>>]

\* list_cameras.py:29-30, 62-63: names[i] = name for i, name in enumerate(...)
Enumerate(seq) == [k \in 0..(Len(seq) - 1) |-> seq[k + 1]]

\* device names: the non-indented lines of the listing, the library's device list
DevNames == {<<"x">>, <<"x", "1">>}

\* dev_name = None
NoneName == <<"None">>

PathTexts == SeqsUpTo(Tokens, MaxPathLen)

OutputLines ==
    [indented : {FALSE}, text : DevNames] \cup [indented : {TRUE}, text : PathTexts]

\* lines of the profiler's output
ProfilerLines == {<<"x", "Camera", ":">>, <<"x">>, <<"Camera", ":", "x">>}

\* list_cameras.py:61: l.strip().endswith("Camera:")
EndsWithCamera(l) == Len(l) >= 2 /\ l[Len(l) - 1] = "Camera" /\ l[Len(l)] = ":"

\* list_cameras.py:63: name.replace(":", "")
RemoveColons(l) == SelectSeq(l, LAMBDA t : t # ":")

Systems == {"Windows", "Linux", "Darwin", "Java"}

\* an exception leaves the try body
Raise(e) ==
    /\ exc' = e
    /\ names_at_fail' = names
    /\ lpc' = "except"
    /\ UNCHANGED <<names, dev_name, nlines, lineno, cur, out>>

\* list_cameras.py:23-30
GcnWindows ==
    /\ fn = "get_camera_names"
    /\ lpc = "start"
    /\ system = "Windows"
    /\ \/ \E e \in {"ModuleNotFoundError", "COMError"} : Raise(e)
       \/ \E devices \in SeqsUpTo(DevNames, MaxDevices) :
            /\ names' = Enumerate(devices)
            /\ lpc' = "return"
            /\ UNCHANGED <<dev_name, nlines, lineno, cur, out, exc, names_at_fail>>
    /\ UNCHANGED <<fn, system, result>>
    /\ UNCHANGED lciVars

\* list_cameras.py:34-41
GcnLinuxRun ==
    /\ fn = "get_camera_names"
    /\ lpc = "start"
    /\ system = "Linux"
    /\ \/ \E e \in {"FileNotFoundError"} : Raise(e)
       \/ \E n \in 0..MaxLines :
            /\ nlines' = n
            /\ lineno' = 0
            /\ dev_name' = NoneName
            /\ lpc' = IF n = 0 THEN "return" ELSE "parse"
            /\ UNCHANGED <<names, cur, out, exc, names_at_fail>>
    /\ UNCHANGED <<fn, system, result>>
    /\ UNCHANGED lciVars

\* list_cameras.py:42-53, one line of the output; the output was stripped,
\* so its first line does not start with a tab
GcnLinuxLine ==
    /\ fn = "get_camera_names"
    /\ lpc = "parse"
    /\ lineno < nlines
    /\ \E line \in OutputLines :
        /\ lineno = 0 => ~line.indented
        /\ lineno' = lineno + 1
        /\ IF ~line.indented
           THEN /\ dev_name' = line.text
                /\ cur' = [indented |-> FALSE, text |-> line.text, added |-> FALSE]
                /\ lpc' = IF lineno' = nlines THEN "return" ELSE "parse"
                /\ UNCHANGED <<names, exc, names_at_fail>>
           ELSE LET dev_path == Expand(line.text)
                    r == PyInt(SplitVideoSecond(dev_path))
                IN  IF ~HasDevVideo(dev_path)
                    THEN /\ cur' = [indented |-> TRUE, text |-> line.text, added |-> FALSE]
                         /\ lpc' = IF lineno' = nlines THEN "return" ELSE "parse"
                         /\ UNCHANGED <<names, dev_name, exc, names_at_fail>>
                    ELSE IF r.ok
                    THEN /\ names' = (r.val :> dev_name) @@ names
                         /\ cur' = [indented |-> TRUE, text |-> line.text, added |-> TRUE]
                         /\ lpc' = IF lineno' = nlines THEN "return" ELSE "parse"
                         /\ UNCHANGED <<dev_name, exc, names_at_fail>>
                    ELSE IF CatchesValueError(r.exc)
                    THEN /\ cur' = [indented |-> TRUE, text |-> line.text, added |-> FALSE]
                         /\ lpc' = IF lineno' = nlines THEN "return" ELSE "parse"
                         /\ UNCHANGED <<names, dev_name, exc, names_at_fail>>
                    ELSE /\ cur' = [indented |-> TRUE, text |-> line.text, added |-> FALSE]
                         /\ exc' = r.exc
                         /\ names_at_fail' = names
                         /\ lpc' = "except"
                         /\ UNCHANGED <<names, dev_name>>
    /\ UNCHANGED <<fn, system, nlines, out, result>>
    /\ UNCHANGED lciVars

\* list_cameras.py:55-63
GcnDarwin ==
    /\ fn = "get_camera_names"
    /\ lpc = "start"
    /\ system = "Darwin"
    /\ \/ \E e \in {"FileNotFoundError"} : Raise(e)
       \/ \E lines \in SeqsUpTo(ProfilerLines, MaxDevices) :
            LET camera_names == SelectSeq(lines, EndsWithCamera)
            IN  /\ names' = Enumerate([k \in 1..Len(camera_names) |-> RemoveColons(camera_names[k])])
                /\ lpc' = "return"
                /\ UNCHANGED <<dev_name, nlines, lineno, cur, out, exc, names_at_fail>>
    /\ UNCHANGED <<fn, system, result>>
    /\ UNCHANGED lciVars

\* list_cameras.py:23, 34, 55: no branch for the host system
GcnOtherSystem ==
    /\ fn = "get_camera_names"
    /\ lpc = "start"
    /\ system \notin {"Windows", "Linux", "Darwin"}
    /\ lpc' = "return"
    /\ UNCHANGED <<fn, result>>
    /\ UNCHANGED gcnVars
    /\ UNCHANGED lciVars

\* list_cameras.py:31-32, 64-65: the handlers, the inner one first
GcnExcept ==
    /\ fn = "get_camera_names"
    /\ lpc = "except"
    /\ IF system = "Windows" /\ CatchesImportError(exc)
       THEN /\ out' = Append(out, "(Tip: install pygrabber for camera names: pip install pygrabber)")
            /\ lpc' = "return"
       ELSE IF CatchesException(exc)
       THEN /\ out' = Append(out, "Could not read camera names:")
            /\ lpc' = "return"
       ELSE /\ out' = out
            /\ lpc' = "raised"
    /\ UNCHANGED <<fn, system, names, dev_name, nlines, lineno, cur, exc, names_at_fail, result>>
    /\ UNCHANGED lciVars

\* list_cameras.py:67
GcnReturn ==
    /\ fn = "get_camera_names"
    /\ lpc = "return"
    /\ result' = names
    /\ lpc' = "done"
    /\ UNCHANGED <<fn>>
    /\ UNCHANGED gcnVars
    /\ UNCHANGED lciVars

InitLister ==
    /\ MainIdle
    /\ fn \in {"list_camera_indexes", "get_camera_names"}
    /\ max_tested \in IF fn = "list_camera_indexes" THEN 0..MaxTested ELSE {0}
    /\ system \in IF fn = "get_camera_names" THEN Systems ELSE {"none"}
    /\ lpc = IF fn = "list_camera_indexes" THEN "probe" ELSE "start"
    /\ i = 0
    /\ indexes = <<>>
    /\ live = {}
    /\ probes = <<>>
    /\ names = EmptyMap
    /\ dev_name = NoneName
    /\ nlines = 0
    /\ lineno = 0
    /\ cur = [indented |-> FALSE, text |-> <<>>, added |-> FALSE]
    /\ out = <<>>
    /\ exc = "none"
    /\ names_at_fail = EmptyMap
    /\ result = <<>>

NextLister ==
    \/ LciOpen /\ UNCHANGED mainVars
    \/ LciRead /\ UNCHANGED mainVars
    \/ LciRelease /\ UNCHANGED mainVars
    \/ LciReturn /\ UNCHANGED mainVars
    \/ GcnWindows /\ UNCHANGED mainVars
    \/ GcnLinuxRun /\ UNCHANGED mainVars
    \/ GcnLinuxLine /\ UNCHANGED mainVars
    \/ GcnDarwin /\ UNCHANGED mainVars
    \/ GcnOtherSystem /\ UNCHANGED mainVars
    \/ GcnExcept /\ UNCHANGED mainVars
    \/ GcnReturn /\ UNCHANGED mainVars

SpecLister == InitLister /\ [][NextLister]_vars

(***************************************************************************)
(* Properties of main.                                                     *)
(***************************************************************************)
StatusLines == SelectSeq(console, LAMBDA l : l.kind = "status")

Finished == pc \in {"done", "raised"}

\* C1: once the camera is opened, release is called exactly once on every
\* way out of the loop (quit key, failed read, interrupt): it has not been
\* called while the loop runs, and it has been called once, never twice,
\* when main is over.
ReleasedExactlyOnce ==
    /\ calls["release"] <= 1
    /\ pc \in {"read", "infer", "output", "finally"} => calls["release"] = 0
    /\ (Finished /\ exit_path \in {"quit", "readfail", "interrupt", "error"}) => calls["release"] = 1
    /\ (Finished /\ exit_path = "openfail") => calls["release"] = 0

ReleasedAfterInterrupt ==
    /\ pc = "done" /\ exit_path = "interrupt" /\ frame_count >= 1
    /\ calls["release"] = 1

\* C2: when the open fails, main prints an error naming the requested index
\* and returns: no read, no inference, no overlay, no display, no status
\* line, and no release or other cleanup call.
OpenFailureReturns ==
    exit_path = "openfail" =>
        /\ pc = "done"
        /\ console = <<Line("loading", 0, "Loading model:"),
                       Line("error", cam, "ERROR: Cannot open camera index")>>
        /\ calls = NoCalls
        /\ cleanup_log = <<>>
        /\ frame_count = 0

OpenFailedOnCamOne == exit_path = "openfail" /\ cam = 1 /\ pc = "done"

\* C5: with the display disabled, at the top of the loop the console holds
\* one status line per frame read; line k carries the frame number k and
\* says PHONE DETECTED exactly when frame k itself had a phone-like class.
StatusLinePerFrame ==
    ~show =>
        /\ Len(StatusLines) <= frame_count
        /\ pc = "read" => Len(StatusLines) = frame_count
        /\ \A k \in 1..Len(StatusLines) :
              /\ StatusLines[k].n = k
              /\ StatusLines[k].text = IF phones[k] THEN "PHONE DETECTED" ELSE "no phone"

PhoneThenNoPhone ==
    /\ ~show /\ pc = "read" /\ frame_count >= 6
    /\ \E k \in 5..(frame_count - 1) :
          /\ StatusLines[k].text = "PHONE DETECTED"
          /\ StatusLines[k + 1].text = "no phone"
          /\ StatusLines[k - 1].text = "no phone"

\* C6: fps and the timer baseline change only in the processing of a frame
\* whose count is a positive multiple of 10; the new fps is 10 over the time
\* since the previous recomputation (since the open, for frame 10), and the
\* baseline becomes the time of this recomputation.
FpsOnlyEveryTenth ==
    [][ /\ (pc # "open" /\ (fps_time' # fps_time \/ fps' # fps \/ report_times' # report_times))
            => /\ pc = "infer"
               /\ frame_count > 0
               /\ frame_count % 10 = 0
               /\ fps' = [num |-> 10, den |-> clock' - report_times[Len(report_times)]]
               /\ fps_time' = clock'
               /\ report_times' = Append(report_times, clock')
        /\ (pc = "infer" /\ frame_count % 10 # 0) => (fps_time' = fps_time /\ fps' = fps)
        /\ (pc = "infer" /\ pc' = "output" /\ frame_count % 10 = 0)
            => Len(report_times') = Len(report_times) + 1
        /\ (pc = "open" /\ pc' = "read") => (fps_time' = clock' /\ report_times' = <<clock'>>)
      ]_vars

SecondRecomputation ==
    /\ pc = "output" /\ frame_count = 20 /\ Len(report_times) = 3
    /\ fps.den = report_times[3] - report_times[2]

\* C7 as stated: the stored frame count never exceeds 10.
FrameCountAtMostTen == frame_count <= 10

\* C7 as amended: the frame count only grows (it is never reset), the
\* timestamp is reassigned every 10 frames, and the number of frames read
\* since the timestamp was last assigned never exceeds 10.
FramesSinceReportAtMostTen ==
    (pc # "open" /\ exit_path # "openfail") =>
        /\ since_report \in 0..10
        /\ frame_count = 10 * (Len(report_times) - 1) + since_report

EleventhFrame == frame_count = 11 /\ since_report = 1 /\ pc = "output"

\* C10: a failed read ends the loop at once: the frame counter is not
\* incremented, nothing is inferred, drawn, shown or printed as status for
\* that read, no read follows, and the cleanup runs as release,
\* destroyAllWindows, exit message.
ReadFailureEndsLoop ==
    exit_path = "readfail" =>
        /\ pc \in {"finally", "done"}
        /\ calls["read"] = frame_count + 1
        /\ calls["infer"] = frame_count
        /\ calls["putText"] = frame_count + (Len(report_times) - 1)
        /\ calls["imshow"] = IF show THEN frame_count ELSE 0
        /\ Len(StatusLines) = IF show THEN 0 ELSE frame_count
        /\ pc = "finally" => /\ console[Len(console)].kind = "readfail"
                             /\ cleanup_log = <<>>
        /\ pc = "done" => /\ cleanup_log = <<"release", "destroyAllWindows", "print">>
                          /\ console[Len(console)].kind = "exiting"
                          /\ console[Len(console) - 1].kind = "readfail"

ReadFailedAfterFrames == exit_path = "readfail" /\ pc = "done" /\ frame_count >= 2

(***************************************************************************)
(* Properties of list_cameras.py.                                          *)
(***************************************************************************)
\* the indices among the first k probes whose open and read both succeeded, ascending
RECURSIVE UsableAmong(_)
UsableAmong(k) ==
    IF k = 0 THEN <<>>
    ELSE IF probes[k].opened /\ probes[k].ret
         THEN Append(UsableAmong(k - 1), probes[k].index)
         ELSE UsableAmong(k - 1)

EveryHandleReleased ==
    (fn = "list_camera_indexes" /\ lpc \in {"probe", "done"}) =>
        /\ live = {}
        /\ \A k \in 1..Len(probes) : probes[k].releases = 1

\* C4 as amended: a handle whose open succeeded is released exactly once,
\* whether or not the read succeeded, before the next index is probed; a
\* handle whose open failed is never released.
OpenedHandlesReleased ==
    fn = "list_camera_indexes" =>
        /\ lpc \in {"probe", "done"} =>
              /\ live = {}
              /\ \A k \in 1..Len(probes) :
                    probes[k].releases = IF probes[k].opened THEN 1 ELSE 0
        /\ lpc \in {"read", "release"} =>
              /\ live = {i}
              /\ \A k \in 1..(Len(probes) - 1) :
                    probes[k].releases = IF probes[k].opened THEN 1 ELSE 0

ReleasedAfterFailedRead ==
    /\ fn = "list_camera_indexes" /\ lpc = "probe" /\ i = 2 /\ i < max_tested
    /\ probes[1].opened /\ probes[1].read /\ ~probes[1].ret /\ probes[1].releases = 1
    /\ ~probes[2].opened /\ probes[2].releases = 0

\* the characters of dev_path after its first "/dev/video"
AfterDevVideo(e) ==
    LET at == Least({k \in 1..(Len(e) - 1) : e[k] = "/dev/" /\ e[k + 1] = "video"})
    IN  SubSeq(e, at + 2, Len(e))

NonNegativeInteger(s) == s # <<>> /\ \A k \in 1..Len(s) : s[k] \in {"0", "1"}

\* C8: an indented line containing "/dev/video" adds an entry only when the
\* characters after that prefix are a non-negative integer; any other
\* suffix adds nothing, and the parse goes on with the next line.
EntryOnlyForNonNegativeIndex ==
    (fn = "get_camera_names" /\ system = "Linux") =>
        /\ (cur.indented /\ HasDevVideo(Expand(cur.text)) /\ cur.added)
              => NonNegativeInteger(AfterDevVideo(Expand(cur.text)))
        /\ \A k \in DOMAIN names : k >= 0
        /\ lineno >= 1 => lpc # "except"

====
